---- MODULE Spec2Model ----
(* LSB steganography codec of stegnography.py: encode_text_in_image and      *)
(* decode_text_from_image, acting on image files.  An image file is modelled *)
(* by its mode, its size and its channel values in row-major order; a        *)
(* string is the sequence of the code points of its characters; a Python     *)
(* string of '0'/'1' digits is a sequence of 0/1.                            *)
EXTENDS Integers, Sequences, FiniteSets, TLC

VARIABLES fs, ret, hist

vars == <<fs, ret, hist>>

-----------------------------------------------------------------------------
(* Bounds of the model *)

MaxPixels == 9
MaxSecretLen == 2

(* Code points the secret's characters are drawn from: NUL, 'H', 'i' and a   *)
(* character outside Latin-1 (U+0100).                                       *)
Chars == {0, 72, 105, 256}

(* Files an image is opened from, and files a result is saved to *)
Paths == {"in.png", "out.png"}
OutputPaths == {"out.png"}

NoFile == [mode |-> "none", size |-> <<0, 0>>, data |-> <<>>]

Secrets == UNION {[1..n -> Chars] : n \in 0..MaxSecretLen}

-----------------------------------------------------------------------------
(* Carrier images on disk before the program runs *)

Ramp(n, base, step) == [i \in 1..n |-> (base + step * (i - 1)) % 256]

(* n pixels: two rows when n is even, one row otherwise *)
SizeOf(n) == IF n % 2 = 0 THEN <<2, n \div 2>> ELSE <<1, n>>

Carriers ==
    {[mode |-> "RGB", size |-> SizeOf(n), data |-> Ramp(3 * n, 255, 0)] : n \in 1..MaxPixels}
    \cup
    {[mode |-> "RGB", size |-> SizeOf(n), data |-> Ramp(3 * n, 6, 37)] : n \in 1..MaxPixels}
    \cup
    {[mode |-> "L", size |-> SizeOf(n), data |-> Ramp(n, 201, 51)] : n \in 1..MaxPixels}

-----------------------------------------------------------------------------
(* Pure helpers *)

(* bin(n) without prefix: the binary digits of n, most significant first *)
RECURSIVE Bin(_)
Bin(n) == IF n < 2 THEN <<n>> ELSE Append(Bin(n \div 2), n % 2)

RECURSIVE ZeroPad(_, _)
ZeroPad(digits, width) ==
    IF Len(digits) >= width THEN digits ELSE ZeroPad(<<0>> \o digits, width)

Reverse(s) == [i \in 1..Len(s) |-> s[Len(s) + 1 - i]]

(* Mutant: the digits least significant first *)
Format08b_LsbFirst(n) == Reverse(ZeroPad(Bin(n), 8))

(* format(n, '08b'): at least 8 digits, more when n >= 256 *)
Format08b(n) == ZeroPad(Bin(n), 8)

(* int(byte, 2) for a non-empty digit string *)
RECURSIVE IntBase2(_)
IntBase2(byte) ==
    IF Len(byte) = 0 THEN 0
    ELSE 2 * IntBase2(SubSeq(byte, 1, Len(byte) - 1)) + byte[Len(byte)]

(* image.convert('RGB') when the mode is not RGB; grey levels are replicated *)
ToRGB(image) ==
    IF image.mode = "RGB" THEN image
    ELSE [mode |-> "RGB", size |-> image.size,
          data |-> [i \in 1..(3 * Len(image.data)) |-> image.data[((i - 1) \div 3) + 1]]]

(* np.array(image).flatten() *)
Flatten(image) == ToRGB(image).data

Shape(image) == <<image.size[1], image.size[2], 3>>

RECURSIVE JoinBits(_)
JoinBits(secret_text) ==
    IF Len(secret_text) = 0 THEN <<>>
    ELSE Format08b(Head(secret_text)) \o JoinBits(Tail(secret_text))

Terminator == <<0, 0, 0, 0, 0, 0, 0, 0>>

(* Mutant: the null terminator is not appended *)
binary_secret_NoTerminator(secret_text) == JoinBits(secret_text)

binary_secret(secret_text) == JoinBits(secret_text) \o Terminator

(* Mutant: the capacity check is missing *)
TooLong_Never(bits, flat_image) == FALSE

(* Mutant: the capacity check rejects a payload that fills the carrier exactly *)
TooLong_OffByOne(bits, flat_image) == Len(bits) >= Len(flat_image)

TooLong(bits, flat_image) == Len(bits) > Len(flat_image)

(* pixel & 0xFE for a uint8: the value with its lowest bit cleared *)
AndFE(pixel) == pixel - (pixel % 2)

(* x | bit for a bit in {0, 1}: adds the bit unless the lowest bit of x is set *)
OrBit(x, bit) == IF x % 2 = 1 THEN x ELSE x + bit

(* Mutant: the LSB is not cleared before the bit is or-ed in *)
SetLSB_NoClear(pixel, bit) == OrBit(pixel, bit) % 256

(* Mutant: the element is overwritten by the bit *)
SetLSB_Overwrite(pixel, bit) == bit

(* flat_image[i] = (flat_image[i] & 0xFE) | int(bit), stored as uint8 *)
SetLSB(pixel, bit) == OrBit(AndFE(pixel), bit) % 256

(* The embedding loop; indexing past the array raises IndexError *)
EmbedRaises(flat_image, bits) == Len(bits) > Len(flat_image)

EmbedBits(flat_image, bits) ==
    [i \in 1..Len(flat_image) |->
        IF i <= Len(bits) THEN SetLSB(flat_image[i], bits[i]) ELSE flat_image[i]]

(* Mutant: the result is saved over the input *)
SavePath_Input(image_path, output_path) == image_path

(* stego_image.save(output_path): the path the result is written to *)
SavePath(image_path, output_path) == output_path

(* binary_data: str(pixel & 1) for every element *)
LSBs(flat_image) == [i \in 1..Len(flat_image) |-> flat_image[i] % 2]

Min(a, b) == IF a < b THEN a ELSE b

(* binary_data[i:i+8] with 0-based i *)
Slice8(binary_data, i) == SubSeq(binary_data, i + 1, Min(i + 8, Len(binary_data)))

(* Mutant: the terminator literal is one digit short *)
IsTerminator_SevenZeros(byte) == byte = <<0, 0, 0, 0, 0, 0, 0>>

IsTerminator(byte) == byte = Terminator

(* for i in range(0, len(binary_data), 8): ... break / text += chr(int(byte, 2)) *)
RECURSIVE DecodeLoop(_, _, _)
DecodeLoop(binary_data, i, text) ==
    IF i >= Len(binary_data) THEN text
    ELSE IF IsTerminator(Slice8(binary_data, i)) THEN text
    ELSE DecodeLoop(binary_data, i + 8, Append(text, IntBase2(Slice8(binary_data, i))))

DecodeText(flat_image) == DecodeLoop(LSBs(flat_image), 0, <<>>)

-----------------------------------------------------------------------------
(* The two operations, as functions of the file system *)

ErrNoFile == "No such file or directory"
ErrTooLong == "Secret too long for image capacity!"
ErrIndex == "index out of bounds"
MsgSaved == "Encoded image saved"

Failure(files, msg) ==
    [fs |-> files, ret |-> [ok |-> FALSE, msg |-> msg, text |-> <<>>], saved |-> FALSE]

encode_text_in_image(files, image_path, secret_text, output_path) ==
    IF files[image_path] = NoFile THEN Failure(files, ErrNoFile)
    ELSE LET image == ToRGB(files[image_path])
             flat_image == Flatten(files[image_path])
             bits == binary_secret(secret_text)
         IN IF TooLong(bits, flat_image) THEN Failure(files, ErrTooLong)
            ELSE IF EmbedRaises(flat_image, bits) THEN Failure(files, ErrIndex)
            ELSE [fs |-> [files EXCEPT ![SavePath(image_path, output_path)] =
                            [mode |-> "RGB", size |-> image.size,
                             data |-> EmbedBits(flat_image, bits)]],
                  ret |-> [ok |-> TRUE, msg |-> MsgSaved, text |-> <<>>],
                  saved |-> TRUE]

decode_text_from_image(files, image_path) ==
    IF files[image_path] = NoFile
    THEN [ok |-> FALSE, msg |-> ErrNoFile, text |-> <<>>]
    ELSE [ok |-> TRUE, msg |-> "", text |-> DecodeText(Flatten(files[image_path]))]

-----------------------------------------------------------------------------
(* State machine *)

(* Bookkeeping per file: n = 0 when no encode produced it; otherwise last is *)
(* the secret of the encode that produced it, and n = 2 when that encode    *)
(* read a file holding a longer secret of codes 1..255.                     *)
Plain(secret_text) == \A i \in 1..Len(secret_text) : secret_text[i] \in 1..255

NoHist == [n |-> 0, last |-> <<>>]

Init ==
    /\ \E c \in Carriers : fs = [p \in Paths |-> IF p = "in.png" THEN c ELSE NoFile]
    /\ ret = [ok |-> TRUE, msg |-> "", text |-> <<>>]
    /\ hist = [p \in Paths |-> NoHist]

Encode(image_path, secret_text, output_path) ==
    \E r \in {encode_text_in_image(fs, image_path, secret_text, output_path)} :
       /\ fs' = r.fs
       /\ ret' = r.ret
       /\ hist' = IF r.saved
                  THEN [hist EXCEPT ![output_path] =
                          [n |-> IF /\ hist[image_path].n > 0
                                    /\ Plain(hist[image_path].last)
                                    /\ Len(hist[image_path].last) > Len(secret_text)
                                 THEN 2 ELSE 1,
                           last |-> secret_text]]
                  ELSE hist

Decode(image_path) ==
    /\ ret' = decode_text_from_image(fs, image_path)
    /\ UNCHANGED <<fs, hist>>

Next ==
    \/ \E image_path \in Paths, secret_text \in Secrets, output_path \in OutputPaths :
          Encode(image_path, secret_text, output_path)
    \/ \E image_path \in Paths : Decode(image_path)

Spec == Init /\ [][Next]_vars

-----------------------------------------------------------------------------
(* Vocabulary of the properties *)

requiredBits(secret_text) == 8 * (Len(secret_text) + 1)

Narrow(secret_text) == \A i \in 1..Len(secret_text) : secret_text[i] \in 0..255

Exists(path) == fs[path] # NoFile

(* The flattened RGB data of the file at path *)
P(path) == Flatten(fs[path])

(* Bit b (0 = least significant) of n *)
BitOf(n, b) == (n \div (2 ^ b)) % 2

(* Value of the k-th complete 8-bit group (k >= 1) of a bit sequence, MSB first *)
GroupValue(bits, k) ==
    128 * bits[8 * k - 7] + 64 * bits[8 * k - 6] + 32 * bits[8 * k - 5]
    + 16 * bits[8 * k - 4] + 8 * bits[8 * k - 3] + 4 * bits[8 * k - 2]
    + 2 * bits[8 * k - 1] + bits[8 * k]

Groups(bits) == 1..(Len(bits) \div 8)

ZeroGroups(bits) == {k \in Groups(bits) : GroupValue(bits, k) = 0}

FirstZeroGroup(bits) == CHOOSE k \in ZeroGroups(bits) : \A m \in ZeroGroups(bits) : k <= m

-----------------------------------------------------------------------------
(* C1 as stated: for every carrier of at least 8 elements and every secret   *)
(* with requiredBits(S) <= length(P), whatever its characters, decoding the  *)
(* result of a successful encode returns S.                                  *)
C1_RoundTripAnyChars ==
    \A path \in Paths :
        (/\ hist[path].n > 0
         /\ Len(P(path)) >= 8
         /\ requiredBits(hist[path].last) <= Len(P(path)))
        => decode_text_from_image(fs, path).text = hist[path].last

(* C1 amended: for every carrier of at least 8 elements and every secret     *)
(* whose characters all have codes 1..255 and with requiredBits(S) <=        *)
(* length(P), encode succeeds and decoding its result returns exactly S.     *)
C1_RoundTrip ==
    \A image_path \in Paths, output_path \in Paths, S \in Secrets :
        (/\ Exists(image_path)
         /\ Len(P(image_path)) >= 8
         /\ Plain(S)
         /\ requiredBits(S) <= Len(P(image_path)))
        => \A r \in {encode_text_in_image(fs, image_path, S, output_path)} :
              /\ r.ret.ok
              /\ decode_text_from_image(r.fs, output_path) =
                     [ok |-> TRUE, msg |-> "", text |-> S]

(* A two-character secret of codes 1..255 was encoded and a decode returned it *)
C1_Witness ==
    /\ hist["out.png"].n > 0
    /\ Plain(hist["out.png"].last)
    /\ Len(hist["out.png"].last) = 2
    /\ ret = [ok |-> TRUE, msg |-> "", text |-> hist["out.png"].last]

-----------------------------------------------------------------------------
(* C2: whenever requiredBits(S) > length(P), encode fails with the           *)
(* payload-too-large error, no file is modified and no output is produced.   *)
C2_CapacityRejection ==
    \A image_path \in Paths, output_path \in Paths, S \in Secrets :
        (Exists(image_path) /\ requiredBits(S) > Len(P(image_path)))
        => \A r \in {encode_text_in_image(fs, image_path, S, output_path)} :
              /\ r.ret = [ok |-> FALSE, msg |-> ErrTooLong, text |-> <<>>]
              /\ r.fs = fs
              /\ ~r.saved

(* An encode was rejected for capacity and there is still no output image *)
C2_Witness ==
    /\ ret = [ok |-> FALSE, msg |-> ErrTooLong, text |-> <<>>]
    /\ fs["out.png"] = NoFile
    /\ fs["in.png"] \in Carriers

-----------------------------------------------------------------------------
(* C3 as stated: for every secret the encoder needs exactly                  *)
(* 8 * (len(S) + 1) bits, and encode is accepted whenever that number is at  *)
(* most length(P).                                                           *)
C3_CapacityAnySecret ==
    \A image_path \in Paths, output_path \in Paths, S \in Secrets :
        Exists(image_path)
        => /\ Len(binary_secret(S)) = 8 * (Len(S) + 1)
           /\ (8 * (Len(S) + 1) <= Len(P(image_path))
               => encode_text_in_image(fs, image_path, S, output_path).ret.ok)

(* C3 amended: for every secret whose characters all have codes 0..255 the   *)
(* encoder needs exactly 8 * (len(S) + 1) bits, and encode is accepted       *)
(* whenever that number is at most length(P), equality included.             *)
C3_Capacity ==
    \A image_path \in Paths, output_path \in Paths, S \in Secrets :
        (Exists(image_path) /\ Narrow(S))
        => /\ Len(binary_secret(S)) = 8 * (Len(S) + 1)
           /\ (8 * (Len(S) + 1) <= Len(P(image_path))
               => encode_text_in_image(fs, image_path, S, output_path).ret.ok)

(* An encode that fills the carrier exactly was accepted *)
C3_Witness ==
    /\ ret.ok /\ ret.msg = MsgSaved
    /\ Narrow(hist["out.png"].last)
    /\ requiredBits(hist["out.png"].last) = Len(P("out.png"))

-----------------------------------------------------------------------------
(* The successful encode steps: the step from the current state to the next  *)
(* is Encode(image_path, S, output_path) and it saved its result.            *)
Saved(image_path, S, output_path) ==
    /\ ret'.msg = MsgSaved
    /\ hist'[output_path].last = S
    /\ Encode(image_path, S, output_path)

(* Output element i (1-based) against input element i: untouched beyond the  *)
(* first `bits` elements, same upper 7 bits within them.                     *)
Disturbance(in, out, bits) ==
    /\ Len(out) = Len(in)
    /\ \A i \in 1..Len(in) :
          /\ out[i] \in 0..255
          /\ i > bits => out[i] = in[i]
          /\ i <= bits => out[i] \div 2 = in[i] \div 2

(* C4 as stated: after any successful encode(P, S) the output has the length *)
(* of P, equals P at every index >= requiredBits(S) and has P's upper 7 bits *)
(* at every index below.                                                     *)
C4_DisturbanceAnySecret ==
    [][\A image_path \in Paths, output_path \in OutputPaths :
          Saved(image_path, hist'[output_path].last, output_path)
          => Disturbance(P(image_path), Flatten(fs'[output_path]),
                         requiredBits(hist'[output_path].last))]_vars

(* C4 amended: after a successful encode(P, S) of a secret whose characters  *)
(* all have codes 0..255, the output has the size and length of P, equals P  *)
(* at every index >= requiredBits(S) and has P's upper 7 bits at every index *)
(* below.                                                                    *)
C4_Disturbance ==
    \A image_path \in Paths, output_path \in Paths, S \in Secrets :
        (Exists(image_path) /\ Narrow(S))
        => \A r \in {encode_text_in_image(fs, image_path, S, output_path)} :
              r.ret.ok =>
                 /\ Shape(r.fs[output_path]) = Shape(fs[image_path])
                 /\ r.fs[output_path].mode = "RGB"
                 /\ Disturbance(P(image_path), r.fs[output_path].data, requiredBits(S))

(* A one-character secret was embedded: the output differs from the original *)
(* carrier and extends beyond the embedded bits.                             *)
C4_Witness ==
    /\ ret.msg = MsgSaved
    /\ hist["out.png"].last \in {<<72>>, <<105>>}
    /\ hist["in.png"].n = 0
    /\ P("out.png") # P("in.png")
    /\ Len(P("out.png")) > requiredBits(hist["out.png"].last)
    /\ Disturbance(P("in.png"), P("out.png"), requiredBits(hist["out.png"].last))

-----------------------------------------------------------------------------
(* C5 as stated: after any encode call, for any choice of input and output   *)
(* path, the carrier file supplied as input is unchanged.                    *)
C5_InputNeverModified ==
    [][\A image_path \in Paths, output_path \in OutputPaths :
          Saved(image_path, hist'[output_path].last, output_path)
          => fs'[image_path] = fs[image_path]]_vars

(* C5 amended: after any encode call whose output path differs from its      *)
(* input path the input file is unchanged; a failed call changes no file,    *)
(* and a successful one changes the file at the output path only.            *)
C5_InputUnchanged ==
    \A image_path \in Paths, output_path \in Paths, S \in Secrets :
        \A r \in {encode_text_in_image(fs, image_path, S, output_path)} :
           /\ image_path # output_path => r.fs[image_path] = fs[image_path]
           /\ \A q \in Paths \ {output_path} : r.fs[q] = fs[q]
           /\ ~r.ret.ok => r.fs = fs

(* An encode from in.png was saved to out.png; in.png is still the carrier   *)
(* it was, and the output differs from it.                                   *)
C5_Witness ==
    /\ ret.msg = MsgSaved
    /\ hist["out.png"].n > 0
    /\ fs["in.png"] \in Carriers
    /\ fs["out.png"] # NoFile
    /\ P("out.png") # P("in.png")

-----------------------------------------------------------------------------
(* C6: when no complete 8-bit group of the carrier's LSBs is zero, decode    *)
(* returns floor(length / 8) characters, one per complete group in order; a  *)
(* trailing partial group contributes no character.                          *)
C6_NoTerminatorDecode ==
    [][\A path \in Paths :
          (/\ Exists(path)
           /\ ZeroGroups(LSBs(P(path))) = {}
           /\ ret'.msg = ""
           /\ Decode(path))
          => /\ ret'.ok
             /\ Len(ret'.text) = Len(P(path)) \div 8
             /\ \A k \in Groups(LSBs(P(path))) :
                   ret'.text[k] = GroupValue(LSBs(P(path)), k)]_vars

-----------------------------------------------------------------------------
(* C7: for any carrier of at least 8 elements, encoding the empty secret     *)
(* succeeds, sets the LSB of the first 8 elements to 0, leaves every other   *)
(* element and every other bit untouched, and the result decodes to "".      *)
C7_EmptySecret ==
    \A image_path \in Paths, output_path \in Paths :
        (Exists(image_path) /\ Len(P(image_path)) >= 8)
        => \A r \in {encode_text_in_image(fs, image_path, <<>>, output_path)} :
              /\ r.ret.ok
              /\ Len(r.fs[output_path].data) = Len(P(image_path))
              /\ \A i \in 1..Len(P(image_path)) :
                    r.fs[output_path].data[i] =
                        IF i <= 8 THEN 2 * (P(image_path)[i] \div 2) ELSE P(image_path)[i]
              /\ decode_text_from_image(r.fs, output_path) =
                     [ok |-> TRUE, msg |-> "", text |-> <<>>]

(* The empty secret was encoded into a carrier whose first LSBs were not all *)
(* zero, and a decode returned the empty string.                             *)
C7_Witness ==
    /\ hist["out.png"] = [n |-> 1, last |-> <<>>]
    /\ hist["in.png"].n = 0
    /\ P("out.png") # P("in.png")
    /\ \A i \in 1..8 : P("out.png")[i] % 2 = 0
    /\ ret = [ok |-> TRUE, msg |-> "", text |-> <<>>]

-----------------------------------------------------------------------------
(* C8: if some complete 8-bit group (MSB first) of the carrier's LSBs is     *)
(* zero, decode returns exactly the characters of the groups strictly before *)
(* the first such group, the same as for the carrier cut before that group,  *)
(* and no returned character has code 0.                                     *)
C8_TerminatorConvention ==
    \A path \in Paths :
        (Exists(path) /\ ZeroGroups(LSBs(P(path))) # {})
        => \A d \in {decode_text_from_image(fs, path)},
              g \in {FirstZeroGroup(LSBs(P(path)))} :
              /\ d.ok
              /\ Len(d.text) = g - 1
              /\ \A k \in 1..(g - 1) : d.text[k] = GroupValue(LSBs(P(path)), k)
              /\ \A k \in 1..Len(d.text) : d.text[k] # 0
              /\ DecodeText(SubSeq(P(path), 1, 8 * (g - 1))) = d.text

(* A decode returned a non-empty text that stops at a zero group which is    *)
(* followed by further non-zero LSBs.                                        *)
C8_Witness ==
    /\ Exists("out.png")
    /\ ZeroGroups(LSBs(P("out.png"))) # {}
    /\ ret = [ok |-> TRUE, msg |-> "", text |-> DecodeText(P("out.png"))]
    /\ ret.text # <<>>
    /\ \E i \in (8 * FirstZeroGroup(LSBs(P("out.png"))) + 1)..Len(P("out.png")) :
          P("out.png")[i] % 2 = 1

-----------------------------------------------------------------------------
(* The LSBs of buffer out hold S, 8 bits per character MSB first, then 8 zeros *)
Layout(out, S) ==
    /\ \A k \in 0..(Len(S) - 1), j \in 0..7 : out[8 * k + j + 1] % 2 = BitOf(S[k + 1], 7 - j)
    /\ \A j \in 0..7 : out[8 * Len(S) + j + 1] % 2 = 0

(* C9 as stated: after any successful encode(P, S) the LSB of output element *)
(* 8k + j is bit 7 - j of the code of S[k], and the LSBs of the 8 elements   *)
(* after them are 0.                                                         *)
C9_LayoutAnySecret ==
    \A path \in Paths : hist[path].n > 0 => Layout(P(path), hist[path].last)

FF32 == [i \in 1..32 |-> 255]

(* C9 amended: after a successful encode(P, S) of a secret whose characters  *)
(* all have codes 0..255, the LSB of output element 8k + j is bit 7 - j of   *)
(* the code of S[k], and the LSBs of the 8 elements after them are 0; 32     *)
(* bytes of 0xFF with "Hi" give LSBs 01001000 01101001 00000000 and leave    *)
(* elements 24..31 at 0xFF.                                                  *)
C9_Layout ==
    /\ \A image_path \in Paths, output_path \in Paths, S \in Secrets :
          (Exists(image_path) /\ Narrow(S))
          => \A r \in {encode_text_in_image(fs, image_path, S, output_path)} :
                r.ret.ok => Layout(r.fs[output_path].data, S)
    /\ ~TooLong(binary_secret(<<72, 105>>), FF32)
    /\ LSBs(EmbedBits(FF32, binary_secret(<<72, 105>>))) =
          <<0, 1, 0, 0, 1, 0, 0, 0>> \o <<0, 1, 1, 0, 1, 0, 0, 1>>
          \o <<0, 0, 0, 0, 0, 0, 0, 0>> \o <<1, 1, 1, 1, 1, 1, 1, 1>>
    /\ \A i \in 25..32 : EmbedBits(FF32, binary_secret(<<72, 105>>))[i] = 255

(* "Hi" was encoded into a carrier of 0xFF bytes *)
C9_Witness ==
    /\ ret.msg = MsgSaved
    /\ hist["out.png"].last = <<72, 105>>
    /\ hist["in.png"].n = 0
    /\ \A i \in 1..Len(P("in.png")) : P("in.png")[i] = 255
    /\ SubSeq(LSBs(P("out.png")), 1, 24) =
          <<0, 1, 0, 0, 1, 0, 0, 0>> \o <<0, 1, 1, 0, 1, 0, 0, 1>>
          \o <<0, 0, 0, 0, 0, 0, 0, 0>>
    /\ \A i \in 25..Len(P("out.png")) : P("out.png")[i] = 255

-----------------------------------------------------------------------------
(* C10: after any sequence of successful encodes, each reading the previous  *)
(* output, a file whose last encoded secret has codes 1..255 decodes to      *)
(* exactly that secret, whatever was encoded before; encoding the same       *)
(* secret into it once more yields the same file.                            *)
C10_LastWriteWins ==
    \A path \in Paths :
        (hist[path].n > 0 /\ Plain(hist[path].last))
        => /\ decode_text_from_image(fs, path) =
                  [ok |-> TRUE, msg |-> "", text |-> hist[path].last]
           /\ \A r \in {encode_text_in_image(fs, path, hist[path].last, path)} :
                 r.ret.ok /\ r.fs[path] = fs[path]

(* A shorter secret was encoded over a longer one and a decode returned it *)
C10_Witness ==
    /\ hist["out.png"].n = 2
    /\ Plain(hist["out.png"].last)
    /\ hist["out.png"].last # <<>>
    /\ ret = [ok |-> TRUE, msg |-> "", text |-> hist["out.png"].last]

====
